---------------------------- MODULE Spec2Model ----------------------------
(***************************************************************************)
(* Model of pkg/pterodactyl/pterodactyl_client.go: the URL builder, the    *)
(* generic API invocation (callApi), the list accessors, the download flow *)
(* and the backup-completion poller (BackupServerWithWait).                *)
(*                                                                         *)
(* Go strings are TLA+ strings; fmt.Sprintf("%s/%s", a, b) is a \o "/" \o b*)
(* A Go error is a record with a kind field; the nil error is NoErr.       *)
(* A Go slice is a record [isNil, elems] so that a nil slice and an empty  *)
(* non-nil slice are different values, as they are for "== nil" in Go.     *)
(***************************************************************************)
EXTENDS Integers, Sequences, FiniteSets, TLC

VARIABLES
    op,          \* public function being executed
    pc,          \* position inside that function
    args,        \* its arguments
    ret,         \* its return values, once pc = "returned"
    apiPc,       \* position inside the callApi invocation in progress
    apiArgs,     \* arguments of that callApi invocation
    apiObject,   \* the caller's variable that callApi's apiObject points to
    apiErr,      \* error returned by callApi
    req,         \* last HTTP request handed to http.DefaultClient.Do
    res,         \* last HTTP response received
    requests,    \* number of HTTP requests issued by the current callApi
    openBodies,  \* response bodies opened and not yet closed
    file,        \* destination path on disk
    outOpen,     \* TRUE while the *os.File of the destination is open
    creates,     \* number of os.Create calls on the destination
    backup,      \* local variable backup of BackupServerWithWait
    panel,       \* CompletedAt of the backup as the panel holds it
    fetches,     \* GetServerBackup calls issued by BackupServerWithWait
    sleeps,      \* time.Sleep calls made by BackupServerWithWait
    pendingReads,\* successful reads whose CompletedAt was zero
    lastSlept    \* number of seconds of the last time.Sleep

vars == <<op, pc, args, ret, apiPc, apiArgs, apiObject, apiErr, req, res,
          requests, openBodies, file, outOpen, creates, backup, panel,
          fetches, sleeps, pendingReads, lastSlept>>

callVars == <<apiPc, apiArgs, apiObject, apiErr, req, res, requests, openBodies>>
fileVars == <<file, outOpen, creates>>
waitVars == <<backup, panel, fetches, sleeps, pendingReads, lastSlept>>

-----------------------------------------------------------------------------
(* Bounds of the model *)

MaxSubPaths == 2      \* longest subPaths list given to buildApiUrl directly
MaxCount    == 3      \* the observation counters saturate at this value
MaxTime     == 2      \* non-zero CompletedAt values the panel may report

-----------------------------------------------------------------------------
(* Package-level declarations *)

WaitForBackupSeconds == 5

ApiEndpointBase    == "api"
ApiEndpointServers == "client"
ApiEndpointServer  == "client/servers"
ApiEndpointBackups == "backups"

StatusOK == 200

-----------------------------------------------------------------------------
(* Values *)

NoErr == [kind |-> "nil"]
TransportErr == [kind |-> "transport"]          \* error of http.Client.Do
ParseErr == [kind |-> "parse"]                  \* error of json.Unmarshal
CreateErr == [kind |-> "create"]                \* error of os.Create
CopyErr == [kind |-> "copy"]                    \* error of io.Copy

NilSlice == [isNil |-> TRUE, elems |-> <<>>]
Slice(s) == [isNil |-> FALSE, elems |-> s]

ZeroTime == 0
IsZero(t) == t = ZeroTime

\* Saturating increment of an observation counter.
Bump(n) == IF n < MaxCount THEN n + 1 ELSE n

Urls == {"http://p", "https://panel.test/x"}
UUIDs == {"s1", "s2"}
BackupIds == {"b1", "b2"}
Endpoints == {ApiEndpointServers, ApiEndpointServer, ""}
Segments == {"s1", ApiEndpointBackups, ""}

SeqsUpTo(S, n) == UNION {[1..k -> S] : k \in 0..n}

MkServer(uuid) == [Attributes |-> [UUID |-> uuid]]
MkPterodactylServer(url) == [Url |-> url, ApiKey |-> "key"]

-----------------------------------------------------------------------------
(* buildApiUrl *)

Sprintf2(a, b) == a \o "/" \o b
Sprintf3(a, b, c) == a \o "/" \o b \o "/" \o c

RECURSIVE AppendSubPaths(_, _)
AppendSubPaths(url, subPaths) ==
    IF subPaths = <<>> THEN url
    ELSE AppendSubPaths(Sprintf2(url, Head(subPaths)), Tail(subPaths))

buildApiUrl_trailing(pterodactylServer, endpoint, subPaths) ==
    AppendSubPaths(Sprintf3(pterodactylServer.Url, ApiEndpointBase, endpoint),
                   subPaths) \o "/"

buildApiUrl(pterodactylServer, endpoint, subPaths) ==
    AppendSubPaths(Sprintf3(pterodactylServer.Url, ApiEndpointBase, endpoint),
                   subPaths)

-----------------------------------------------------------------------------
(* Typed results and response bodies *)

\* The zero value of the type T that a caller hands to callApi.
Zero(T) ==
    CASE T = "Servers"   -> [Servers |-> NilSlice]
      [] T = "Backups"   -> [Backups |-> NilSlice]
      [] T = "Backup"    -> [Attributes |-> [UUID |-> "", CompletedAt |-> ZeroTime]]
      [] T = "BackupUrl" -> [Attributes |-> [URL |-> ""]]
      [] T = "ApiErrors" -> [Errors |-> NilSlice]

MkBackup(uuid, completedAt) ==
    [Attributes |-> [UUID |-> uuid, CompletedAt |-> completedAt]]

\* A response body is JSON text: text json.Unmarshal rejects, the literal
\* null, or a document; val is what the document decodes to in a zero value.
InvalidBody == [kind |-> "invalid"]
NullBody == [kind |-> "null"]
ObjectBody(v) == [kind |-> "object", val |-> v]

\* json.Unmarshal(body, &v): the error and the value of v afterwards.
Unmarshal(body, v) ==
    CASE body.kind = "invalid" -> [err |-> ParseErr, val |-> v]
      [] body.kind = "null"    -> [err |-> NoErr, val |-> v]
      [] body.kind = "object"  -> [err |-> NoErr, val |-> body.val]

\* Error payloads of the panel: ordered {code, detail} pairs.
ApiErrorsPayloads ==
    {[Errors |-> NilSlice],
     [Errors |-> Slice(<<[Code |-> "NotFound", Detail |-> "missing"]>>)]}

SignedUrls == {"https://cdn.test/b1", "", "http://[cdn"}

Last(s) == s[Len(s)]

\* The documents the panel may send with status 200 for a result of type T.
OkValues(T, a) ==
    CASE T = "Servers" ->
           {[Servers |-> s] : s \in {NilSlice, Slice(<<>>),
                                     Slice(<<MkServer("s1")>>)}}
      [] T = "Backups" ->
           {[Backups |-> s] : s \in {NilSlice, Slice(<<>>),
                                     Slice(<<MkBackup("b1", panel)>>)}}
      [] T = "Backup" ->
           IF a.method = "POST"
           THEN {MkBackup(id, panel) : id \in BackupIds}
           ELSE {MkBackup(Last(a.subPaths), panel)}
      [] T = "BackupUrl" ->
           {[Attributes |-> [URL |-> u]] : u \in SignedUrls}

Statuses == {StatusOK, 404, 500}

Bodies(T, a, status) ==
    {InvalidBody, NullBody} \cup
    {ObjectBody(v) : v \in IF status = StatusOK THEN OkValues(T, a)
                           ELSE ApiErrorsPayloads}

NoRes == [kind |-> "none"]
NoReq == [kind |-> "none"]
NotReturned == [kind |-> "none"]
NoArgs == [kind |-> "none"]

-----------------------------------------------------------------------------
(* callApi *)

\* url.Parse inside http.NewRequest rejects a host that opens a bracket it
\* never closes; no URL of the model contains a closing bracket.
Contains(s, c) == \E i \in 1..Len(s) : SubSeq(s, i, i) = c
NewRequestOk(url) == ~Contains(url, "[")

\* http.DefaultClient.Do cannot reach a URL without a scheme.
DoCanConnect(url) == url # ""

\* Lines 58-70: the error callApi returns and the value left in *apiObject.
callApiResult_swallowParse(response, object) ==
    IF response.status # StatusOK
    THEN LET e == Unmarshal(response.body, Zero("ApiErrors"))
         IN  IF e.err # NoErr
             THEN [err |-> NoErr, object |-> object]
             ELSE [err |-> [kind |-> "api",
                            format |-> "api call failed with errors: %s",
                            arg |-> e.val],
                   object |-> object]
    ELSE LET u == Unmarshal(response.body, object)
         IN  [err |-> u.err, object |-> u.val]

callApiResult(response, object) ==
    IF response.status # StatusOK
    THEN LET e == Unmarshal(response.body, Zero("ApiErrors"))
         IN  IF e.err # NoErr
             THEN [err |-> e.err, object |-> object]
             ELSE [err |-> [kind |-> "api",
                            format |-> "api call failed with errors: %s",
                            arg |-> e.val],
                   object |-> object]
    ELSE LET u == Unmarshal(response.body, object)
         IN  [err |-> u.err, object |-> u.val]

\* The state callApi starts in when called with these arguments.
CallApi(T, pterodactylServer, method, endpoint, subPaths) ==
    /\ apiArgs' = [T |-> T, pterodactylServer |-> pterodactylServer,
                   method |-> method, endpoint |-> endpoint,
                   subPaths |-> subPaths]
    /\ apiObject' = Zero(T)
    /\ apiErr' = NoErr
    /\ apiPc' = "do"
    /\ requests' = 0
    /\ UNCHANGED <<req, res, openBodies>>

\* Lines 39-56: build the request, send it, read the body.
CallApiDo ==
    /\ apiPc = "do"
    /\ LET apiUrl == buildApiUrl(apiArgs.pterodactylServer, apiArgs.endpoint,
                                 apiArgs.subPaths)
       IN  IF ~NewRequestOk(apiUrl)
           THEN \* req is nil: req.Header.Add dereferences it
                /\ apiPc' = "panic"
                /\ pc' = "panic"
                /\ UNCHANGED <<req, res, requests, openBodies, apiErr>>
           ELSE /\ req' = [method |-> apiArgs.method, url |-> apiUrl,
                           Accept |-> "application/json",
                           Authorization |->
                               "Bearer " \o apiArgs.pterodactylServer.ApiKey]
                /\ requests' = requests + 1
                /\ pc' = pc
                /\ \/ /\ res' = NoRes
                      /\ apiErr' = TransportErr
                      /\ apiPc' = "ret"
                      /\ UNCHANGED openBodies
                   \/ /\ DoCanConnect(apiUrl)
                      /\ \E status \in Statuses :
                           \E body \in Bodies(apiArgs.T, apiArgs, status) :
                             res' = [status |-> status, body |-> body]
                      /\ openBodies' = openBodies + 1
                      /\ apiPc' = "decode"
                      /\ UNCHANGED apiErr
    /\ UNCHANGED <<op, args, ret, apiArgs, apiObject>>
    /\ UNCHANGED fileVars
    /\ UNCHANGED waitVars

\* Lines 58-70 and the deferred res.Body.Close().
CallApiDecode ==
    /\ apiPc = "decode"
    /\ LET r == callApiResult(res, apiObject)
       IN  /\ apiErr' = r.err
           /\ apiObject' = r.object
    /\ openBodies' = openBodies - 1
    /\ apiPc' = "ret"
    /\ UNCHANGED <<op, pc, args, ret, apiArgs, req, res, requests>>
    /\ UNCHANGED fileVars
    /\ UNCHANGED waitVars

-----------------------------------------------------------------------------
(* GetServers and GetServerBackups *)

GetServersCall ==
    /\ op = "GetServers" /\ pc = "start"
    /\ CallApi("Servers", args.pterodactylServer, "GET", ApiEndpointServers, <<>>)
    /\ pc' = "called"
    /\ UNCHANGED <<op, args, ret>>
    /\ UNCHANGED fileVars
    /\ UNCHANGED waitVars

\* Lines 76-84; list is the decoded collection.
ListResult(err, list, message) ==
    IF err # NoErr THEN [val |-> NilSlice, err |-> err]
    ELSE IF list.isNil
         THEN [val |-> NilSlice, err |-> [kind |-> "domain", msg |-> message]]
         ELSE [val |-> list, err |-> NoErr]

GetServersReturn ==
    /\ op = "GetServers" /\ pc = "called" /\ apiPc = "ret"
    /\ ret' = ListResult(apiErr, apiObject.Servers, "no servers returned")
    /\ pc' = "returned"
    /\ apiPc' = "idle"
    /\ UNCHANGED <<op, args, apiArgs, apiObject, apiErr, req, res, requests,
                   openBodies>>
    /\ UNCHANGED fileVars
    /\ UNCHANGED waitVars

GetServerBackupsArgs(server) ==
    [endpoint |-> ApiEndpointServer,
     subPaths |-> <<server.Attributes.UUID, ApiEndpointBackups>>]

GetServerBackupsCall ==
    /\ op = "GetServerBackups" /\ pc = "start"
    /\ LET a == GetServerBackupsArgs(args.server)
       IN  CallApi("Backups", args.pterodactylServer, "GET", a.endpoint, a.subPaths)
    /\ pc' = "called"
    /\ UNCHANGED <<op, args, ret>>
    /\ UNCHANGED fileVars
    /\ UNCHANGED waitVars

GetServerBackupsReturn ==
    /\ op = "GetServerBackups" /\ pc = "called" /\ apiPc = "ret"
    /\ ret' = ListResult(apiErr, apiObject.Backups, "no backups returned")
    /\ pc' = "returned"
    /\ apiPc' = "idle"
    /\ UNCHANGED <<op, args, apiArgs, apiObject, apiErr, req, res, requests,
                   openBodies>>
    /\ UNCHANGED fileVars
    /\ UNCHANGED waitVars

NoFile == [exists |-> FALSE, content |-> ""]

\* The state before a public function is called.
Idle ==
    /\ pc = "start"
    /\ ret = NotReturned
    /\ apiPc = "idle"
    /\ apiArgs = NoArgs
    /\ apiObject = NoArgs
    /\ apiErr = NoErr
    /\ req = NoReq
    /\ res = NoRes
    /\ requests = 0
    /\ openBodies = 0
    /\ outOpen = FALSE
    /\ creates = 0
    /\ backup = Zero("Backup")
    /\ fetches = 0
    /\ sleeps = 0
    /\ pendingReads = 0
    /\ lastSlept = 0

BadUrls == {"http://[p"}

InitApi ==
    /\ Idle
    /\ op \in {"GetServers", "GetServerBackups"}
    /\ \E url \in Urls \cup BadUrls, uuid \in UUIDs :
         args = [pterodactylServer |-> MkPterodactylServer(url),
                 server |-> MkServer(uuid)]
    /\ file = NoFile
    /\ panel \in 0..MaxTime

NextApi ==
    \/ GetServersCall
    \/ GetServersReturn
    \/ GetServerBackupsCall
    \/ GetServerBackupsReturn
    \/ CallApiDo
    \/ CallApiDecode

SpecApi == InitApi /\ [][NextApi]_vars

-----------------------------------------------------------------------------
(* DownloadServerBackup *)

NilFile == [isNil |-> TRUE]
FileHandle(name) == [isNil |-> FALSE, name |-> name]

\* What the signed URL may serve.
Contents == {"", "AB"}
RawBody(c) == [kind |-> "raw", content |-> c]

\* What io.Copy leaves in the file when it fails before the end of the body.
Prefixes(c) == {SubSeq(c, 1, k) : k \in 0..(Len(c) - 1)}

\* Line 134.
DownloadCall ==
    /\ op = "DownloadServerBackup" /\ pc = "start"
    /\ CallApi("BackupUrl", args.pterodactylServer, "GET", ApiEndpointServer,
               <<args.server.Attributes.UUID, ApiEndpointBackups,
                 args.backupId, "download">>)
    /\ pc' = "resolve"
    /\ UNCHANGED <<op, args, ret>>
    /\ UNCHANGED fileVars
    /\ UNCHANGED waitVars

\* Lines 135-137.
DownloadResolved ==
    /\ op = "DownloadServerBackup" /\ pc = "resolve" /\ apiPc = "ret"
    /\ IF apiErr # NoErr
       THEN /\ ret' = [val |-> NilFile, err |-> apiErr]
            /\ pc' = "returned"
       ELSE /\ pc' = "get"
            /\ UNCHANGED ret
    /\ apiPc' = "idle"
    /\ UNCHANGED <<op, args, apiArgs, apiObject, apiErr, req, res, requests,
                   openBodies>>
    /\ UNCHANGED fileVars
    /\ UNCHANGED waitVars

\* Lines 141-148: the second GET, against the signed URL.
DownloadGet ==
    /\ op = "DownloadServerBackup" /\ pc = "get"
    /\ LET backupUrl == apiObject
       IN  IF ~NewRequestOk(backupUrl.Attributes.URL)
           THEN \* req is nil: req.Header.Add dereferences it
                /\ pc' = "panic"
                /\ UNCHANGED <<req, res, openBodies, ret>>
           ELSE /\ req' = [method |-> "GET", url |-> backupUrl.Attributes.URL,
                           Accept |-> "application/json"]
                /\ \/ /\ res' = NoRes
                      /\ ret' = [val |-> NilFile, err |-> TransportErr]
                      /\ pc' = "returned"
                      /\ UNCHANGED openBodies
                   \/ /\ DoCanConnect(backupUrl.Attributes.URL)
                      /\ \E status \in Statuses, c \in Contents :
                           res' = [status |-> status, body |-> RawBody(c)]
                      /\ openBodies' = openBodies + 1
                      /\ pc' = "status"
                      /\ UNCHANGED ret
    /\ UNCHANGED <<op, args, apiPc, apiArgs, apiObject, apiErr, requests>>
    /\ UNCHANGED fileVars
    /\ UNCHANGED waitVars

\* Lines 151-157 and 164-166, with the deferred res.Body.Close() on return.
DownloadCheckStatus_createFirst ==
    /\ op = "DownloadServerBackup" /\ pc = "status"
    /\ creates' = creates + 1
    /\ file' = [exists |-> TRUE, content |-> ""]
    /\ IF res.status = StatusOK
       THEN /\ outOpen' = TRUE
            /\ pc' = "copy"
            /\ UNCHANGED <<ret, openBodies>>
       ELSE /\ ret' = [val |-> NilFile,
                       err |-> [kind |-> "status",
                                msg |-> "download failed with status code "
                                        \o ToString(res.status)]]
            /\ openBodies' = openBodies - 1
            /\ pc' = "returned"
            /\ UNCHANGED outOpen
    /\ UNCHANGED <<op, args, apiPc, apiArgs, apiObject, apiErr, req, res, requests>>
    /\ UNCHANGED waitVars

DownloadCheckStatus ==
    /\ op = "DownloadServerBackup" /\ pc = "status"
    /\ IF res.status = StatusOK
       THEN /\ creates' = creates + 1
            /\ \/ \* os.Create fails
                  /\ ret' = [val |-> NilFile, err |-> CreateErr]
                  /\ openBodies' = openBodies - 1
                  /\ pc' = "returned"
                  /\ UNCHANGED <<file, outOpen>>
               \/ \* os.Create creates the file or truncates it
                  /\ file' = [exists |-> TRUE, content |-> ""]
                  /\ outOpen' = TRUE
                  /\ pc' = "copy"
                  /\ UNCHANGED <<ret, openBodies>>
       ELSE /\ ret' = [val |-> NilFile,
                       err |-> [kind |-> "status",
                                msg |-> "download failed with status code "
                                        \o ToString(res.status)]]
            /\ openBodies' = openBodies - 1
            /\ pc' = "returned"
            /\ UNCHANGED <<file, outOpen, creates>>
    /\ UNCHANGED <<op, args, apiPc, apiArgs, apiObject, apiErr, req, res, requests>>
    /\ UNCHANGED waitVars

\* Lines 160-168, with the deferred out.Close() and res.Body.Close().
DownloadCopy_openHandle ==
    /\ op = "DownloadServerBackup" /\ pc = "copy"
    /\ \/ /\ \E part \in Prefixes(res.body.content) :
               file' = [exists |-> TRUE, content |-> part]
          /\ ret' = [val |-> NilFile, err |-> CopyErr]
          /\ outOpen' = FALSE
       \/ /\ file' = [exists |-> TRUE, content |-> res.body.content]
          /\ ret' = [val |-> FileHandle(args.destination), err |-> NoErr]
          /\ outOpen' = TRUE
    /\ openBodies' = openBodies - 1
    /\ pc' = "returned"
    /\ UNCHANGED <<op, args, apiPc, apiArgs, apiObject, apiErr, req, res,
                   requests, creates>>
    /\ UNCHANGED waitVars

DownloadCopy ==
    /\ op = "DownloadServerBackup" /\ pc = "copy"
    /\ \/ /\ \E part \in Prefixes(res.body.content) :
               file' = [exists |-> TRUE, content |-> part]
          /\ ret' = [val |-> NilFile, err |-> CopyErr]
       \/ /\ file' = [exists |-> TRUE, content |-> res.body.content]
          /\ ret' = [val |-> FileHandle(args.destination), err |-> NoErr]
    /\ outOpen' = FALSE
    /\ openBodies' = openBodies - 1
    /\ pc' = "returned"
    /\ UNCHANGED <<op, args, apiPc, apiArgs, apiObject, apiErr, req, res,
                   requests, creates>>
    /\ UNCHANGED waitVars

InitDownload ==
    /\ Idle
    /\ op = "DownloadServerBackup"
    /\ file \in {NoFile, [exists |-> TRUE, content |-> "old"]}
    /\ \E url \in Urls \cup BadUrls, uuid \in UUIDs, id \in BackupIds :
         args = [pterodactylServer |-> MkPterodactylServer(url),
                 server |-> MkServer(uuid),
                 backupId |-> id,
                 destination |-> "/tmp/backup.tar.gz",
                 existing |-> file]
    /\ panel = ZeroTime

NextDownload ==
    \/ DownloadCall
    \/ CallApiDo
    \/ CallApiDecode
    \/ DownloadResolved
    \/ DownloadGet
    \/ DownloadCheckStatus
    \/ DownloadCopy

SpecDownload == InitDownload /\ [][NextDownload]_vars

-----------------------------------------------------------------------------
(* BackupServer and BackupServerWithWait *)

NilBackup == [isNil |-> TRUE]
BackupPtr(b) == [isNil |-> FALSE, val |-> b]

\* Line 174: the endpoint and sub-paths BackupServer gives to callApi.
BackupServerArgs(server) ==
    [endpoint |-> Sprintf3(ApiEndpointServer, server.Attributes.UUID,
                           ApiEndpointBackups),
     subPaths |-> <<>>]

\* Line 183, entering BackupServer (line 174).
WaitCallBackupServer ==
    /\ op = "BackupServerWithWait" /\ pc = "start"
    /\ LET a == BackupServerArgs(args.server)
       IN  CallApi("Backup", args.pterodactylServer, "POST", a.endpoint, a.subPaths)
    /\ pc' = "request"
    /\ UNCHANGED <<op, args, ret>>
    /\ UNCHANGED fileVars
    /\ UNCHANGED waitVars

\* Lines 175-179 and 183-186.
WaitBackupServerReturn ==
    /\ op = "BackupServerWithWait" /\ pc = "request" /\ apiPc = "ret"
    /\ backup' = apiObject
    /\ IF apiErr # NoErr
       THEN /\ ret' = [val |-> NilBackup, err |-> apiErr]
            /\ pc' = "returned"
       ELSE /\ pc' = "poll"
            /\ UNCHANGED ret
    /\ apiPc' = "idle"
    /\ UNCHANGED <<op, args, apiArgs, apiObject, apiErr, req, res, requests,
                   openBodies>>
    /\ UNCHANGED fileVars
    /\ UNCHANGED <<panel, fetches, sleeps, pendingReads, lastSlept>>

\* Line 190, entering GetServerBackup (line 113).
WaitCallGetServerBackup ==
    /\ op = "BackupServerWithWait" /\ pc = "poll"
    /\ CallApi("Backup", args.pterodactylServer, "GET", ApiEndpointServer,
               <<args.server.Attributes.UUID, ApiEndpointBackups,
                 backup.Attributes.UUID>>)
    /\ fetches' = Bump(fetches)
    /\ pc' = "fetch"
    /\ UNCHANGED <<op, args, ret>>
    /\ UNCHANGED fileVars
    /\ UNCHANGED <<backup, panel, sleeps, pendingReads, lastSlept>>

\* Lines 114-118 and 190-193.
WaitGetServerBackupReturn_lastRecord ==
    /\ op = "BackupServerWithWait" /\ pc = "fetch" /\ apiPc = "ret"
    /\ IF apiErr # NoErr
       THEN /\ ret' = [val |-> BackupPtr(backup), err |-> apiErr]
            /\ pc' = "returned"
            /\ UNCHANGED backup
       ELSE /\ pc' = "check"
            /\ backup' = apiObject
            /\ UNCHANGED ret
    /\ apiPc' = "idle"
    /\ UNCHANGED <<op, args, apiArgs, apiObject, apiErr, req, res, requests,
                   openBodies>>
    /\ UNCHANGED fileVars
    /\ UNCHANGED <<panel, fetches, sleeps, pendingReads, lastSlept>>

WaitGetServerBackupReturn ==
    /\ op = "BackupServerWithWait" /\ pc = "fetch" /\ apiPc = "ret"
    /\ backup' = apiObject
    /\ IF apiErr # NoErr
       THEN /\ ret' = [val |-> NilBackup, err |-> apiErr]
            /\ pc' = "returned"
       ELSE /\ pc' = "check"
            /\ UNCHANGED ret
    /\ apiPc' = "idle"
    /\ UNCHANGED <<op, args, apiArgs, apiObject, apiErr, req, res, requests,
                   openBodies>>
    /\ UNCHANGED fileVars
    /\ UNCHANGED <<panel, fetches, sleeps, pendingReads, lastSlept>>

\* Lines 195-199: the test of the loop body; time.Sleep is entered here.
WaitCheck_breakAlways ==
    /\ op = "BackupServerWithWait" /\ pc = "check"
    /\ sleeps' = Bump(sleeps)
    /\ lastSlept' = WaitForBackupSeconds
    /\ pendingReads' = IF IsZero(backup.Attributes.CompletedAt)
                       THEN Bump(pendingReads) ELSE pendingReads
    /\ pc' = "sleeping"
    /\ UNCHANGED <<op, args, ret, backup, panel, fetches>>
    /\ UNCHANGED callVars
    /\ UNCHANGED fileVars

WaitCheck_sleepWhilePending ==
    /\ op = "BackupServerWithWait" /\ pc = "check"
    /\ IF IsZero(backup.Attributes.CompletedAt)
       THEN /\ sleeps' = Bump(sleeps)
            /\ lastSlept' = WaitForBackupSeconds
            /\ pendingReads' = Bump(pendingReads)
            /\ pc' = "poll"
            /\ UNCHANGED ret
       ELSE /\ ret' = [val |-> BackupPtr(backup), err |-> NoErr]
            /\ pc' = "returned"
            /\ UNCHANGED <<sleeps, lastSlept, pendingReads>>
    /\ UNCHANGED <<op, args, backup, panel, fetches>>
    /\ UNCHANGED callVars
    /\ UNCHANGED fileVars

WaitCheck_ceiling ==
    /\ op = "BackupServerWithWait" /\ pc = "check"
    /\ IF ~IsZero(backup.Attributes.CompletedAt) \/ fetches >= 2
       THEN /\ sleeps' = Bump(sleeps)
            /\ lastSlept' = WaitForBackupSeconds
            /\ pc' = "sleeping"
            /\ UNCHANGED pendingReads
       ELSE /\ pendingReads' = Bump(pendingReads)
            /\ pc' = "poll"
            /\ UNCHANGED <<sleeps, lastSlept>>
    /\ UNCHANGED <<op, args, ret, backup, panel, fetches>>
    /\ UNCHANGED callVars
    /\ UNCHANGED fileVars

WaitCheck ==
    /\ op = "BackupServerWithWait" /\ pc = "check"
    /\ IF ~IsZero(backup.Attributes.CompletedAt)
       THEN /\ sleeps' = Bump(sleeps)
            /\ lastSlept' = WaitForBackupSeconds
            /\ pc' = "sleeping"
            /\ UNCHANGED pendingReads
       ELSE /\ pendingReads' = Bump(pendingReads)
            /\ pc' = "poll"
            /\ UNCHANGED <<sleeps, lastSlept>>
    /\ UNCHANGED <<op, args, ret, backup, panel, fetches>>
    /\ UNCHANGED callVars
    /\ UNCHANGED fileVars

\* Lines 196-202: time.Sleep is over; log, break, return &backup.
WaitWake ==
    /\ op = "BackupServerWithWait" /\ pc = "sleeping"
    /\ ret' = [val |-> BackupPtr(backup), err |-> NoErr]
    /\ pc' = "returned"
    /\ UNCHANGED <<op, args>>
    /\ UNCHANGED callVars
    /\ UNCHANGED fileVars
    /\ UNCHANGED waitVars

\* The panel finishes the backup it was asked for.
PanelCompletes ==
    /\ op = "BackupServerWithWait"
    /\ pc \in {"request", "poll", "fetch", "check"}
    /\ panel = ZeroTime
    /\ panel' \in 1..MaxTime
    /\ UNCHANGED <<op, pc, args, ret, backup, fetches, sleeps, pendingReads,
                   lastSlept>>
    /\ UNCHANGED callVars
    /\ UNCHANGED fileVars

InitWait ==
    /\ Idle
    /\ op = "BackupServerWithWait"
    /\ \E url \in Urls \cup BadUrls, uuid \in UUIDs :
         args = [pterodactylServer |-> MkPterodactylServer(url),
                 server |-> MkServer(uuid)]
    /\ file = NoFile
    /\ panel = ZeroTime

WaitStep ==
    \/ WaitCallBackupServer
    \/ WaitBackupServerReturn
    \/ WaitCallGetServerBackup
    \/ WaitGetServerBackupReturn
    \/ WaitCheck
    \/ WaitWake
    \/ CallApiDo
    \/ CallApiDecode

NextWait ==
    \/ WaitCallBackupServer
    \/ WaitBackupServerReturn
    \/ WaitCallGetServerBackup
    \/ WaitGetServerBackupReturn
    \/ WaitCheck
    \/ WaitWake
    \/ CallApiDo
    \/ CallApiDecode
    \/ PanelCompletes

SpecWait == InitWait /\ [][NextWait]_vars

\* The calling goroutine keeps running and every HTTP call comes back.
FairWait == SpecWait /\ WF_vars(WaitStep)

-----------------------------------------------------------------------------
(* The URLs the functions address *)

\* Line 174, BackupServer called on its own.
BackupServerCall ==
    /\ op = "BackupServer" /\ pc = "start"
    /\ LET a == BackupServerArgs(args.server)
       IN  CallApi("Backup", args.pterodactylServer, "POST", a.endpoint, a.subPaths)
    /\ pc' = "called"
    /\ UNCHANGED <<op, args, ret>>
    /\ UNCHANGED fileVars
    /\ UNCHANGED waitVars

\* Lines 175-179.
BackupServerReturn ==
    /\ op = "BackupServer" /\ pc = "called" /\ apiPc = "ret"
    /\ ret' = [val |-> apiObject, err |-> apiErr]
    /\ pc' = "returned"
    /\ apiPc' = "idle"
    /\ UNCHANGED <<op, args, apiArgs, apiObject, apiErr, req, res, requests,
                   openBodies>>
    /\ UNCHANGED fileVars
    /\ UNCHANGED waitVars

\* buildApiUrl applied to the arguments drawn by InitUrl.
BuildApiUrl ==
    /\ op = "buildApiUrl" /\ pc = "start"
    /\ ret' = [val |-> buildApiUrl(args.pterodactylServer, args.endpoint,
                                   args.subPaths)]
    /\ pc' = "returned"
    /\ UNCHANGED <<op, args>>
    /\ UNCHANGED callVars
    /\ UNCHANGED fileVars
    /\ UNCHANGED waitVars

InitUrl ==
    /\ Idle
    /\ op \in {"buildApiUrl", "BackupServer", "GetServerBackups"}
    /\ \E url \in Urls \cup BadUrls :
         IF op = "buildApiUrl"
         THEN \E endpoint \in Endpoints, subPaths \in SeqsUpTo(Segments, MaxSubPaths) :
                args = [pterodactylServer |-> MkPterodactylServer(url),
                        endpoint |-> endpoint,
                        subPaths |-> subPaths]
         ELSE \E uuid \in UUIDs :
                args = [pterodactylServer |-> MkPterodactylServer(url),
                        server |-> MkServer(uuid)]
    /\ file = NoFile
    /\ panel = ZeroTime

NextUrl ==
    \/ BuildApiUrl
    \/ BackupServerCall
    \/ BackupServerReturn
    \/ GetServerBackupsCall
    \/ GetServerBackupsReturn
    \/ CallApiDo
    \/ CallApiDecode

SpecUrl == InitUrl /\ [][NextUrl]_vars

-----------------------------------------------------------------------------
(* Properties of callApi and the list accessors, under SpecApi *)

CallReturned == apiPc = "ret"
GotResponse == res # NoRes
BodyParses == res.body.kind # "invalid"

\* C6: when callApi returns it has issued exactly one HTTP request; after a
\* transport failure it returns the transport error; after a response whose
\* status is not 200 it returns a non-nil error (the aggregated API error if
\* the error body parses, the parse error if not) and the caller's typed
\* result still holds the value it had at the call; it returns a nil error
\* only after a 200 response whose body json.Unmarshal accepted, and a 200
\* document is then what the typed result holds.
C6_CallApiOutcome ==
    CallReturned =>
      /\ requests = 1
      /\ ~GotResponse => apiErr = TransportErr
      /\ (GotResponse /\ res.status # StatusOK) =>
            /\ apiErr # NoErr
            /\ apiErr.kind = IF BodyParses THEN "api" ELSE "parse"
            /\ BodyParses => apiErr.arg = Unmarshal(res.body, Zero("ApiErrors")).val
            /\ apiObject = Zero(apiArgs.T)
      /\ apiErr = NoErr =>
            /\ GotResponse
            /\ res.status = StatusOK
            /\ BodyParses
            /\ res.body.kind = "object" => apiObject = res.body.val

C6_Witness ==
    /\ CallReturned /\ GotResponse
    /\ res.status = 404
    /\ apiErr.kind = "api"
    /\ requests = 1

ListReturned == pc = "returned" /\ op \in {"GetServers", "GetServerBackups"}

\* The collection field of a 200 document is absent (nil) or empty.
EmptyOrAbsentCollection ==
    /\ GotResponse
    /\ res.status = StatusOK
    /\ res.body.kind = "object"
    /\ LET list == IF op = "GetServers" THEN res.body.val.Servers
                   ELSE res.body.val.Backups
       IN  list.isNil \/ list.elems = <<>>

DomainError ==
    [kind |-> "domain",
     msg |-> IF op = "GetServers" THEN "no servers returned"
             ELSE "no backups returned"]

\* C7: GetServers and GetServerBackups, given status 200 with an empty or
\* absent collection field, fail with the domain error and a nil list; they
\* never succeed returning an empty list.
C7_EmptyCollectionFails ==
    ListReturned =>
      /\ EmptyOrAbsentCollection =>
            (ret.err = DomainError /\ ret.val = NilSlice)
      /\ ret.err = NoErr => ret.val.elems # <<>>

-----------------------------------------------------------------------------
(* Properties of DownloadServerBackup, under SpecDownload *)

\* The last request is the one to the signed URL: it carries no credential.
SignedRequest == req # NoReq /\ "Authorization" \notin DOMAIN req
SignedResponse == SignedRequest /\ GotResponse

\* os.Create was called, a handle is open or the file on disk has changed.
FileTouched == creates > 0 \/ outOpen \/ file # args.existing

StatusError ==
    [kind |-> "status",
     msg |-> "download failed with status code " \o ToString(res.status)]

\* C8: the destination is created or written only after the response of the
\* signed URL was seen with status 200; when resolving the signed URL fails,
\* when the second GET fails at transport level or when its status is not
\* 200, the destination is untouched and the call returns a nil handle and
\* an error, which reports the status code in the last case.
C8_FileOnlyAfterStatusOK ==
    /\ FileTouched => (SignedResponse /\ res.status = StatusOK)
    /\ (pc = "returned" /\ (\/ apiErr # NoErr
                            \/ (SignedRequest /\ ~GotResponse)
                            \/ (SignedResponse /\ res.status # StatusOK))) =>
          /\ ~FileTouched
          /\ ret.val = NilFile
          /\ ret.err # NoErr
          /\ (SignedResponse /\ res.status # StatusOK) => ret.err = StatusError

C8_Witness ==
    /\ pc = "returned"
    /\ SignedResponse /\ res.status = 404
    /\ args.existing.exists /\ file = args.existing
    /\ ret.err.kind = "status"

\* C10: no response body and no destination handle is open once callApi or
\* DownloadServerBackup has returned, whatever the exit path; the handle
\* DownloadServerBackup returns on success is a closed one.
C10_HandlesClosedOnReturn ==
    /\ CallReturned => openBodies = 0
    /\ pc \in {"returned", "panic"} => (openBodies = 0 /\ ~outOpen)
    /\ (pc = "returned" /\ ~ret.val.isNil) => (ret.err = NoErr /\ ~outOpen)

C10_Witness ==
    /\ pc = "returned"
    /\ ret.err = NoErr /\ ~ret.val.isNil
    /\ file.content = "AB"
    /\ ~outOpen /\ openBodies = 0

-----------------------------------------------------------------------------
(* Properties of BackupServerWithWait, under SpecWait and FairWait *)

WaitOk == pc = "returned" /\ ret.err = NoErr
WaitFailed == pc = "panic" \/ apiErr # NoErr

\* The last GetServerBackup read succeeded and its CompletedAt is non-zero.
ReadCompleted ==
    /\ fetches > 0
    /\ apiPc \in {"ret", "idle"}
    /\ apiErr = NoErr
    /\ ~IsZero(apiObject.Attributes.CompletedAt)

\* C1: when BackupServerWithWait returns a nil error, the record it returns
\* is the one of the last GetServerBackup read, its CompletedAt is non-zero,
\* and every read before it was pending: with N - 1 pending reads the poller
\* has issued exactly N fetches.
C1_ReturnsFirstCompletedRead ==
    WaitOk =>
      /\ ~ret.val.isNil
      /\ ret.val.val = apiObject
      /\ res.body.kind = "object"
      /\ ret.val.val = res.body.val
      /\ ~IsZero(ret.val.val.Attributes.CompletedAt)
      /\ fetches >= 1
      /\ pendingReads < MaxCount => fetches = pendingReads + 1

C1_Witness ==
    /\ WaitOk
    /\ fetches = 2 /\ pendingReads = 1
    /\ ~IsZero(ret.val.val.Attributes.CompletedAt)

\* C2: the sleep happens exactly on pending reads: whenever the poller is
\* about to issue a fetch, or has returned a record, it has slept once per
\* pending read and not after the completed one.
C2_SleepExactlyOnPendingReads ==
    (pc = "poll" \/ WaitOk) => sleeps = pendingReads

\* C3 as stated: one fetch-and-check, one sleep, exit, whatever the read was.
C3_SingleFetchThenExit ==
    /\ fetches <= 1
    /\ WaitOk => (fetches = 1 /\ sleeps = 1)

\* C3 as amended: one fetch-and-check per iteration; a pending read leads to
\* the next fetch with no sleep; the only sleep, of WaitForBackupSeconds,
\* follows the completed read and precedes the exit.
C3_RepollsThenSleepsOnce ==
    /\ pc \in {"start", "request", "poll", "fetch", "check"} => sleeps = 0
    /\ (pc = "sleeping" \/ WaitOk) =>
          /\ sleeps = 1
          /\ lastSlept = WaitForBackupSeconds
          /\ ~IsZero(backup.Attributes.CompletedAt)
    /\ (pc = "poll" /\ fetches < MaxCount) => pendingReads = fetches
    /\ (pc = "check" /\ pendingReads < MaxCount) => fetches = pendingReads + 1

C3_Witness ==
    /\ WaitOk
    /\ fetches = 3 /\ pendingReads = 2 /\ sleeps = 1

\* C4: a failed call ends BackupServerWithWait at once: the result is a nil
\* record with the error of that call; nothing is fetched after a failed
\* backup request, nothing is fetched or slept after a failed poll.
C4_FailedCallAborts ==
    /\ (pc = "returned" /\ ret.err # NoErr) =>
          (ret.val = NilBackup /\ ret.err = apiErr)
    /\ apiErr # NoErr =>
          /\ pc \in {"request", "fetch", "returned"}
          /\ apiPc \in {"ret", "idle"}
          /\ apiPc = "idle" => pc = "returned"
          /\ sleeps = 0
          /\ req.method = "POST" => fetches = 0
          /\ pendingReads < MaxCount =>
                fetches = IF req.method = "POST" THEN 0 ELSE pendingReads + 1

C4_Witness ==
    /\ pc = "returned"
    /\ ret.err # NoErr /\ ret.val = NilBackup
    /\ fetches = 2 /\ pendingReads = 1

\* Every response the poller decodes carries the panel's record.
AnsweredWithRecord == apiPc = "decode" => res.body.kind = "object"

\* C5: provided no call fails, a read that reports a non-zero CompletedAt is
\* eventually followed by the return, and so is the completion of the backup
\* on a panel that answers every read with its record; and as long as every
\* read is pending the poller never returns and issues fetches again and
\* again.
C5_NoRetryCeiling ==
    /\ ([]~WaitFailed /\ <>ReadCompleted) => <>WaitOk
    /\ ([]~WaitFailed /\ []AnsweredWithRecord /\ <>(panel # ZeroTime)) => <>WaitOk
    /\ ([]~WaitFailed /\ []~ReadCompleted) =>
          ([](pc # "returned") /\ []<>(pc = "fetch" /\ apiPc = "do"))

C5_Witness ==
    /\ WaitOk
    /\ fetches = MaxCount /\ pendingReads = MaxCount

-----------------------------------------------------------------------------
(* Properties of the URLs, under SpecUrl *)

RECURSIVE JoinSegments(_)
JoinSegments(segments) ==
    IF segments = <<>> THEN ""
    ELSE "/" \o Head(segments) \o JoinSegments(Tail(segments))

\* C9: buildApiUrl returns base, "/api/", the endpoint, then "/" and the
\* segment for each segment in order, and nothing after the endpoint when
\* there is no segment; the request of BackupServer and the request of
\* GetServerBackups go to the same URL <base>/api/client/servers/<uuid>/backups.
C9_UrlShape ==
    /\ (op = "buildApiUrl" /\ pc = "returned") =>
          /\ ret.val = args.pterodactylServer.Url \o "/api/" \o args.endpoint
                       \o JoinSegments(args.subPaths)
          /\ args.subPaths = <<>> =>
                ret.val = args.pterodactylServer.Url \o "/api/" \o args.endpoint
    /\ (op \in {"BackupServer", "GetServerBackups"} /\ req # NoReq) =>
          req.url = args.pterodactylServer.Url \o "/api/client/servers/"
                    \o args.server.Attributes.UUID \o "/backups"

C9_Witness ==
    /\ op = "buildApiUrl" /\ pc = "returned"
    /\ Len(args.subPaths) = 2
    /\ ret.val = "http://p/api/client/servers/s1/backups"

=============================================================================
